---- MODULE Spec2Model ----
(***************************************************************************)
(* Model of the kubernetes pod eventer                                     *)
(* (internal/pkg/composable/providers/kubernetes/pod.go) and of the hints  *)
(* command (internal/pkg/fleetapi/hints_cmd.go).                           *)
(*                                                                         *)
(* Spec      the running eventer, one pod in full detail: its callbacks    *)
(*           with every snapshot, the node/namespace cross-updaters, the   *)
(*           crossUpdate RWMutex, the registry and the delete timers.      *)
(* SpecLock  the same eventer with two pods, so that pod callbacks run     *)
(*           side by side, and one updater; the snapshots are those of     *)
(*           running pods without hints.                                   *)
(* FairSpec  Spec with the scheduler's fairness and a metadata generator   *)
(*           that always answers.                                          *)
(* SpecStart construction, Start and Stop of the eventer.                  *)
(* SpecExec  HintsCmd.Execute applied to bounded requests and transport    *)
(*           outcomes.                                                     *)
(***************************************************************************)
EXTENDS Integers, Sequences, FiniteSets, TLC

\* ------------------------------------------------------------------ bounds
\* Timers that can be scheduled and not yet finished at one time: with one
\* pod (Spec, FairSpec), and with two pods (SpecLock).
MaxTimers == 2
MaxTimersLock == 1

\* ------------------------------------------------------------ the universe
None == "none"

\* UIDs of the pods the watcher delivers.
Pods == {"p1", "p2"}

\* pod.Spec.Containers of a pod (fixed for the life of a UID).
SpecContainers(uid) == <<"app">>

\* pod.Spec.InitContainers of a pod.
SpecInitContainers(uid) == IF uid = "p1" THEN <<"init1">> ELSE <<>>

\* The node and namespace updaters registered by NewPodEventer.
Updaters == {"node", "namespace"}

Threads == Pods \cup Updaters

HintsKey == "elastic-co-hints/package"

\* Runtime IDs a container status can carry; "" = not in the runtime yet.
RuntimeIDs == {"", "containerd://c"}

SeqToSet(s) == {s[i] : i \in 1..Len(s)}

\* kubernetes.GetContainersInPod: spec containers, then init containers.
GetContainersInPod(uid) == SpecContainers(uid) \o SpecInitContainers(uid)

\* Pod snapshots the watcher (or its store) can hand to a callback.
Snapshots(uid) ==
    [uid : {uid},
     annotations : SUBSET {HintsKey},
     ids : [SeqToSet(GetContainersInPod(uid)) -> RuntimeIDs]]

\* The snapshots whose containers are all in the runtime.
RunningSnapshots(uid) ==
    {s \in Snapshots(uid) : \A c \in DOMAIN s.ids : s.ids[c] # ""}

NoPod == [uid |-> None]

\* fmt.Sprintf("%s.%s", uid, name)
EventID(uid, name) == uid \o "." \o name

\* A cleanup that forgets the init containers.
StoppedIDsWithoutInit(uid) ==
    <<uid>>
    \o [i \in 1..Len(SpecContainers(uid)) |-> EventID(uid, SpecContainers(uid)[i])]

\* emitStopped's Remove calls for a pod, in call order: the pod, its spec
\* containers, its init containers.
StoppedIDs(uid) ==
    <<uid>>
    \o [i \in 1..Len(SpecContainers(uid)) |-> EventID(uid, SpecContainers(uid)[i])]
    \o [i \in 1..Len(SpecInitContainers(uid)) |->
            EventID(uid, SpecInitContainers(uid)[i])]

\* checkForHints: the annotations have the key elastic-co-hints/package.
checkForHints(annotations) == HintsKey \in annotations

\* -------------------------------------------------- HintsCmd.Execute (pure)
\* HintsRequest.Type values a caller can pass.
RequestTypes == {"", "Start", "Stop"}

\* HintsResponse.Action values a server can answer.
Actions == {"created", "", "exists", "failed"}

StatusOK == 200
StatusTooManyRequests == 429

\* What client.Send can come back with: an error (of a Go type, with its
\* inner cause or text) or an HTTP response (status, whether the body
\* decodes as JSON, the decoded action).
SendErrors ==
    [kind : {"url.Error", "net.OpError", "other"},
     detail : {"connection refused", "i/o timeout"}]

SendResponses ==
    [kind : {"response"},
     status : {StatusOK, StatusTooManyRequests, 404, 500},
     decodes : BOOLEAN,
     action : Actions]

SendOutcomes == SendErrors \cup SendResponses

\* A nil error, and a nil *HintsResponse.
NoError == "nil"
NilResponse == [nil |-> TRUE]

\* err.Error() of a send error returned as it is.
ErrorText(out) == out.kind \o ": " \o out.detail

\* Execute without the request validation.
ValidateRequestSkipped(type) == NoError

\* HintsRequest.Validate: nil, or the error for a missing type.
ValidateRequest(type) ==
    IF Len(type) = 0 THEN "missing hints type" ELSE NoError

\* A response validation that accepts every action.
ValidateResponseAccepting(action) == NoError

\* HintsResponse.Validate: nil, or the error for an action other than "created".
ValidateResponse(action) ==
    IF action # "created" THEN "hints not created" ELSE NoError

\* The result of one Execute call: the returned pair, the number of
\* client.Send calls made, and whether the call panicked instead of
\* returning.
ExecResult(resp, err, sends, panicked) ==
    [resp |-> resp, err |-> err, sends |-> sends, panicked |-> panicked]

\* errors.As(err, target) as Execute calls it: the target is the variable
\* itself (a nil *url.Error / *net.OpError passed by value), not its
\* address.  errors.As panics when its target is a nil pointer, whatever
\* the error is; err is non-nil at both call sites.
ErrorsAsPanics(err, targetIsNilPointer) == targetIsNilPointer

\* An Execute whose generic non-200 branch comes before the 429 branch.
ExecuteGenericFirst(type, out) ==
    IF ValidateRequest(type) # NoError
    THEN ExecResult(NilResponse, ValidateRequest(type), 0, FALSE)
    ELSE IF out.kind # "response"
    THEN ExecResult(NilResponse, NoError, 1, ErrorsAsPanics(out, TRUE))
    ELSE IF out.status # StatusOK
    THEN ExecResult(NilResponse, "ExtractError(body)", 1, FALSE)
    ELSE IF ~out.decodes
    THEN ExecResult(NilResponse, "fail to decode hints response", 1, FALSE)
    ELSE IF ValidateResponse(out.action) # NoError
    THEN ExecResult(NilResponse, ValidateResponse(out.action), 1, FALSE)
    ELSE ExecResult([action |-> out.action], NoError, 1, FALSE)

\* HintsCmd.Execute(ctx, r) with the outcome `out` of client.Send.
Execute(type, out) ==
    IF ValidateRequest(type) # NoError
    THEN ExecResult(NilResponse, ValidateRequest(type), 0, FALSE)
    ELSE IF out.kind # "response"
    THEN IF ErrorsAsPanics(out, TRUE)
         THEN ExecResult(NilResponse, NoError, 1, TRUE)
         ELSE ExecResult(NilResponse, ErrorText(out), 1, FALSE)
    ELSE IF out.status = StatusTooManyRequests
    THEN ExecResult(NilResponse, "ErrTooManyRequests", 1, FALSE)
    ELSE IF out.status # StatusOK
    THEN ExecResult(NilResponse, "ExtractError(body)", 1, FALSE)
    ELSE IF ~out.decodes
    THEN ExecResult(NilResponse, "fail to decode hints response", 1, FALSE)
    ELSE IF ValidateResponse(out.action) # NoError
    THEN ExecResult(NilResponse, ValidateResponse(out.action), 1, FALSE)
    ELSE ExecResult([action |-> out.action], NoError, 1, FALSE)

\* --------------------------------------------------------------- the state
VARIABLES
    pc,        \* where each callback thread is
    op,        \* the callback a thread is running: add, update, delete, cross
    snap,      \* the pod object the running callback was handed
    idx,       \* generateContainerData's position in the container list
    calls,     \* the registry / remote calls the running callback has made
    todo,      \* per updater: the pods still to re-emit in this cross-update
    readers,   \* crossUpdate: threads holding the read lock
    pending,   \* crossUpdate: the writer that announced itself, waiting for readers
    writer,    \* crossUpdate: the thread holding the write lock
    registry,  \* the identities the registry (comm) holds
    timers,    \* per pod: how many AfterFunc timers are at each position
    cleaned,   \* per pod: a cleanup started and nothing was published since
    crashed,   \* an unrecovered panic ended the process
    start,     \* the eventer's watchers and the progress of Start / Stop
    exec       \* the Execute call under test

vars == <<pc, op, snap, idx, calls, todo, readers, pending, writer,
          registry, timers, cleaned, crashed, start, exec>>

lockVars == <<readers, pending, writer>>
threadVars == <<pc, op, snap, idx, calls, todo>>
eventerVars == <<threadVars, lockVars, registry, timers, cleaned, crashed>>

\* ------------------------------------------------------ crossUpdate RWMutex
\* RLock taken as if crossUpdate were a plain mutex: it also waits for readers.
RLockExclusive == writer = None /\ pending = None /\ readers = {}

\* A callback that enters without waiting for the lock.
RLockMissing == TRUE

\* p.crossUpdate.RLock(): returns once no writer holds the lock or has
\* announced itself; other readers do not matter.
RLock == writer = None /\ pending = None

\* Timers that are scheduled and not finished: of a pod, and of all pods.
InFlight(uid) ==
    LET RECURSIVE Sum(_)
        Sum(k) == IF k = 0 THEN 0 ELSE timers[uid][k] + Sum(k - 1)
    IN Sum(Len(timers[uid]))

RECURSIVE AllInFlight(_)
AllInFlight(P) ==
    IF P = {} THEN 0
    ELSE LET p == CHOOSE x \in P : TRUE IN InFlight(p) + AllInFlight(P \ {p})

\* -------------------------------------------------------- pod callbacks
PodOps == {"add", "update", "delete"}

\* The pod watcher calls OnAdd, OnUpdate or OnDelete for a pod; the callback
\* is at its first statement, p.crossUpdate.RLock().
Deliver(t) ==
    /\ ~crashed
    /\ pc[t] = "idle"
    /\ pc' = [pc EXCEPT ![t] = "rlock"]
    /\ UNCHANGED <<op, snap, idx, calls, todo, lockVars, registry, timers, cleaned,
                   crashed, start, exec>>

\* RLock has returned in OnAdd, OnUpdate or OnDelete (o), called with the
\* pod object s.
Callback(t, o, s) ==
    /\ ~crashed
    /\ pc[t] = "rlock"
    /\ RLock
    /\ readers' = readers \cup {t}
    /\ pc' = [pc EXCEPT ![t] = "locked"]
    /\ op' = [op EXCEPT ![t] = o]
    /\ snap' = [snap EXCEPT ![t] = s]
    /\ UNCHANGED <<idx, calls, todo, pending, writer, registry, timers, cleaned,
                   crashed, start, exec>>

\* The deferred p.crossUpdate.RUnlock(): the callback returns.
RUnlock(t) ==
    /\ ~crashed
    /\ t \in Pods
    /\ pc[t] = "ret"
    /\ readers' = readers \ {t}
    /\ pc' = [pc EXCEPT ![t] = "idle"]
    /\ op' = [op EXCEPT ![t] = None]
    /\ snap' = [snap EXCEPT ![t] = NoPod]
    /\ idx' = [idx EXCEPT ![t] = 0]
    /\ calls' = [calls EXCEPT ![t] = <<>>]
    /\ UNCHANGED <<todo, pending, writer, registry, timers, cleaned, crashed, start, exec>>

\* An OnDelete that also removes the pod's identities before it returns.
OnDeleteBodyImmediate(t) ==
    /\ timers' = [timers EXCEPT ![snap[t].uid][1] = @ + 1]
    /\ registry' = registry \ SeqToSet(StoppedIDs(snap[t].uid))
    /\ UNCHANGED <<calls, cleaned>>

\* OnDelete's body: time.AfterFunc(p.cleanupTimeout, func() { p.emitStopped(pod) }).
\* Nothing is removed here; the timer is scheduled and OnDelete returns.
OnDeleteBody(t) ==
    /\ timers' = [timers EXCEPT ![snap[t].uid][1] = @ + 1]
    /\ UNCHANGED <<registry, calls, cleaned>>

OnDelete(t) ==
    /\ ~crashed
    /\ pc[t] = "locked"
    /\ op[t] = "delete"
    /\ OnDeleteBody(t)
    /\ pc' = [pc EXCEPT ![t] = "ret"]
    /\ UNCHANGED <<op, snap, idx, todo, lockVars, crashed, start, exec>>

\* ------------------------------------------------------------ emitRunning
Call(kind, id) == [kind |-> kind, id |-> id]

\* An unrecovered panic in a callback: the deferred unlock runs while the
\* stack unwinds, then the Go runtime ends the process.
Panic(t) ==
    /\ pc' = [pc EXCEPT ![t] = "panicked"]
    /\ crashed' = TRUE
    /\ readers' = readers \ {t}
    /\ writer' = IF writer = t THEN None ELSE writer
    /\ UNCHANGED pending

\* generatePodData followed by emitRunning's use of its result.  Without a
\* "kubernetes" entry generatePodData returns providerData{}, whose mapping
\* is a nil map, and data.mapping["scope"] = p.scope panics.  Otherwise the
\* pod is published under its UID.
PodData(s, podMetaOK) ==
    IF ~podMetaOK
    THEN [panicked |-> TRUE, calls |-> <<>>]
    ELSE [panicked |-> FALSE, calls |-> <<Call("AddOrUpdate", s.uid)>>]

\* What info.NewAgentInfo, json.Marshal and json.Unmarshal can do before
\* postMappingstoFleet reaches Execute.
PrepOutcomes == {"ok", "NewAgentInfo error", "json error"}

\* postMappingstoFleet(k8sMapping, client, "Start"): returns early, with
\* the error, when the agent info or the JSON conversion fails; else calls
\* Execute once and returns `resp, nil`, whatever error Execute returned.
postMappingstoFleet(id, prep, out) ==
    IF prep # "ok"
    THEN [panicked |-> FALSE, calls |-> <<>>, err |-> prep]
    ELSE [panicked |-> Execute("Start", out).panicked,
          calls |-> <<Call("Execute", id)>>,
          err |-> NoError]

\* One iteration of generateContainerData's loop, for container c of
\* snapshot s.
ContainerData(s, c, metaOK, prep, out) ==
    IF s.ids[c] = ""
    THEN [panicked |-> FALSE, calls |-> <<>>]
    ELSE IF ~metaOK
    THEN [panicked |-> FALSE, calls |-> <<>>]
    ELSE IF checkForHints(s.annotations)
    THEN [panicked |-> postMappingstoFleet(EventID(s.uid, c), prep, out).panicked,
          calls |-> postMappingstoFleet(EventID(s.uid, c), prep, out).calls]
    ELSE [panicked |-> FALSE, calls |-> <<Call("AddOrUpdate", EventID(s.uid, c))>>]

\* What the loop body can do for the container the thread is at, over all
\* the answers of the metadata generator, the agent info and the transport.
ContainerOutcomes(t, MetaAnswers) ==
    IF pc[t] # "containers" THEN {}
    ELSE {ContainerData(snap[t], GetContainersInPod(snap[t].uid)[idx[t]], metaOK, prep, out) :
            metaOK \in MetaAnswers, prep \in PrepOutcomes, out \in SendOutcomes}

\* The identities a sequence of calls publishes to the registry.
Published(cs) == {cs[i].id : i \in {j \in 1..Len(cs) : cs[j].kind = "AddOrUpdate"}}

Emitting(t) == pc[t] \in {"locked", "containers"} /\ op[t] \in {"add", "update", "cross"}

\* An emit that cancels the pod's pending cleanups when it publishes the pod.
EmitPodCancelling(t, podMetaOK) ==
    /\ ~crashed
    /\ pc[t] = "locked"
    /\ op[t] \in {"add", "update", "cross"}
    /\ LET r == PodData(snap[t], podMetaOK) IN
       IF r.panicked
       THEN /\ Panic(t)
            /\ UNCHANGED <<op, snap, idx, calls, todo, registry, timers, cleaned,
                           start, exec>>
       ELSE /\ registry' = registry \cup Published(r.calls)
            /\ calls' = [calls EXCEPT ![t] = @ \o r.calls]
            /\ cleaned' = [cleaned EXCEPT ![snap[t].uid] = FALSE]
            /\ timers' = [timers EXCEPT ![snap[t].uid] = [k \in DOMAIN @ |-> 0]]
            /\ pc' = [pc EXCEPT ![t] =
                        IF GetContainersInPod(snap[t].uid) = <<>> THEN "ret" ELSE "containers"]
            /\ idx' = [idx EXCEPT ![t] = 1]
            /\ UNCHANGED <<op, snap, todo, lockVars, crashed, start, exec>>

\* An emit whose update path diffs against the registry: OnUpdate does not
\* publish a pod the registry already holds.
EmitPodDiffing(t, podMetaOK) ==
    /\ ~crashed
    /\ pc[t] = "locked"
    /\ op[t] \in {"add", "update", "cross"}
    /\ LET r == PodData(snap[t], podMetaOK) IN
       IF r.panicked
       THEN /\ Panic(t)
            /\ UNCHANGED <<op, snap, idx, calls, todo, registry, timers, cleaned,
                           start, exec>>
       ELSE /\ registry' = registry \cup Published(r.calls)
            /\ calls' = [calls EXCEPT ![t] =
                            IF op[t] = "update" /\ snap[t].uid \in registry
                            THEN @ ELSE @ \o r.calls]
            /\ cleaned' = [cleaned EXCEPT ![snap[t].uid] = FALSE]
            /\ pc' = [pc EXCEPT ![t] =
                        IF GetContainersInPod(snap[t].uid) = <<>> THEN "ret" ELSE "containers"]
            /\ idx' = [idx EXCEPT ![t] = 1]
            /\ UNCHANGED <<op, snap, todo, lockVars, timers, crashed, start, exec>>

\* emitRunning up to and including the pod's AddOrUpdate (OnAdd directly,
\* OnUpdate and the cross-updaters through unlockedUpdate).
EmitPod(t, podMetaOK) ==
    /\ ~crashed
    /\ pc[t] = "locked"
    /\ op[t] \in {"add", "update", "cross"}
    /\ LET r == PodData(snap[t], podMetaOK) IN
       IF r.panicked
       THEN /\ Panic(t)
            /\ UNCHANGED <<op, snap, idx, calls, todo, registry, timers, cleaned,
                           start, exec>>
       ELSE /\ registry' = registry \cup Published(r.calls)
            /\ calls' = [calls EXCEPT ![t] = @ \o r.calls]
            /\ cleaned' = [cleaned EXCEPT ![snap[t].uid] = FALSE]
            /\ pc' = [pc EXCEPT ![t] =
                        IF GetContainersInPod(snap[t].uid) = <<>> THEN "ret" ELSE "containers"]
            /\ idx' = [idx EXCEPT ![t] = 1]
            /\ UNCHANGED <<op, snap, todo, lockVars, timers, crashed, start, exec>>

\* A reconciling emit: a container the loop does not publish (no runtime
\* ID, no metadata, or routed to remote dispatch) is removed from the registry.
EmitContainerReconciling(t, r) ==
    /\ ~crashed
    /\ pc[t] = "containers"
    /\ LET s == snap[t]
           cs == GetContainersInPod(s.uid) IN
       IF r.panicked
       THEN /\ Panic(t)
            /\ calls' = [calls EXCEPT ![t] = @ \o r.calls]
            /\ UNCHANGED <<op, snap, idx, todo, registry, timers, cleaned, start, exec>>
       ELSE /\ registry' = IF Published(r.calls) = {}
                           THEN registry \ {EventID(s.uid, cs[idx[t]])}
                           ELSE registry \cup Published(r.calls)
            /\ calls' = [calls EXCEPT ![t] = @ \o r.calls]
            /\ cleaned' = [cleaned EXCEPT ![s.uid] = @ /\ Published(r.calls) = {}]
            /\ idx' = [idx EXCEPT ![t] = @ + 1]
            /\ pc' = [pc EXCEPT ![t] = IF idx[t] = Len(cs) THEN "ret" ELSE "containers"]
            /\ UNCHANGED <<op, snap, todo, lockVars, timers, crashed, start, exec>>

\* emitContainers / generateContainerData: the loop body for the next
\* container, and the return after the last one.
EmitContainer(t, r) ==
    /\ ~crashed
    /\ pc[t] = "containers"
    /\ LET s == snap[t]
           cs == GetContainersInPod(s.uid) IN
       IF r.panicked
       THEN /\ Panic(t)
            /\ calls' = [calls EXCEPT ![t] = @ \o r.calls]
            /\ UNCHANGED <<op, snap, idx, todo, registry, timers, cleaned, start, exec>>
       ELSE /\ registry' = registry \cup Published(r.calls)
            /\ calls' = [calls EXCEPT ![t] = @ \o r.calls]
            /\ cleaned' = [cleaned EXCEPT ![s.uid] = @ /\ Published(r.calls) = {}]
            /\ idx' = [idx EXCEPT ![t] = @ + 1]
            /\ pc' = [pc EXCEPT ![t] = IF idx[t] = Len(cs) THEN "ret" ELSE "containers"]
            /\ UNCHANGED <<op, snap, todo, lockVars, timers, crashed, start, exec>>

\* ------------------------------------------------------------ emitStopped
\* A Remove that is not harmless when repeated: it puts back an identity
\* the registry does not hold.
emitStoppedToggling(uid, k) ==
    registry' = IF StoppedIDs(uid)[k] \in registry
                THEN registry \ {StoppedIDs(uid)[k]}
                ELSE registry \cup {StoppedIDs(uid)[k]}

\* The timer of an OnDelete runs emitStopped in a goroutine of its own, with
\* no lock.  A timer at position k has made k - 1 of its Remove calls; at
\* position 1 it has not fired yet.  emitStopped's k-th call:
emitStopped(uid, k) ==
    registry' = registry \ {StoppedIDs(uid)[k]}

TimerStep(uid, k) ==
    /\ ~crashed
    /\ k \in 1..Len(StoppedIDs(uid))
    /\ timers[uid][k] > 0
    /\ emitStopped(uid, k)
    /\ timers' = [timers EXCEPT ![uid] =
                    [i \in DOMAIN @ |->
                        IF i = k THEN @[i] - 1
                        ELSE IF i = k + 1 THEN @[i] + 1
                        ELSE @[i]]]
    /\ cleaned' = [cleaned EXCEPT ![uid] = IF k = 1 THEN TRUE ELSE @]
    /\ UNCHANGED <<threadVars, lockVars, crashed, start, exec>>

\* A cleanup of the pod has fired and not finished.
CleanupRunning(uid) == \E k \in 2..Len(StoppedIDs(uid)) : timers[uid][k] > 0

\* --------------------------------------------- node / namespace updaters
\* A node or namespace event reaches the updater NewPodEventer registered
\* with p.unlockedUpdate, the pod store and &p.crossUpdate.
Trigger(u) ==
    /\ ~crashed
    /\ pc[u] = "idle"
    /\ pc' = [pc EXCEPT ![u] = "wlock"]
    /\ UNCHANGED <<op, snap, idx, calls, todo, lockVars, registry, timers, cleaned,
                   crashed, start, exec>>

\* The updater calls Lock on the sync.Locker it was given, which for
\* &p.crossUpdate is the write lock: it announces itself (new readers block)
\* once no other writer is ahead of it.
Lock(u) ==
    /\ ~crashed
    /\ pc[u] = "wlock"
    /\ writer = None /\ pending = None
    /\ pending' = u
    /\ pc' = [pc EXCEPT ![u] = "wwait"]
    /\ UNCHANGED <<op, snap, idx, calls, todo, readers, writer, registry, timers,
                   cleaned, crashed, start, exec>>

\* Lock returns when the readers have left; the updater lists the pods of
\* the store that reference the changed node or namespace.
LockAcquired(u, affected) ==
    /\ ~crashed
    /\ pc[u] = "wwait"
    /\ pending = u
    /\ readers = {}
    /\ writer' = u
    /\ pending' = None
    /\ todo' = [todo EXCEPT ![u] = affected]
    /\ pc' = [pc EXCEPT ![u] = "wlocked"]
    /\ UNCHANGED <<op, snap, idx, calls, readers, registry, timers, cleaned,
                   crashed, start, exec>>

\* The updater calls its handler, p.unlockedUpdate, for the next pod.
CrossUpdate(u, s) ==
    /\ ~crashed
    /\ pc[u] = "wlocked"
    /\ s.uid \in todo[u]
    /\ todo' = [todo EXCEPT ![u] = @ \ {s.uid}]
    /\ op' = [op EXCEPT ![u] = "cross"]
    /\ snap' = [snap EXCEPT ![u] = s]
    /\ pc' = [pc EXCEPT ![u] = "locked"]
    /\ UNCHANGED <<idx, calls, lockVars, registry, timers, cleaned, crashed, start, exec>>

\* unlockedUpdate returns to the updater's loop.
CrossReturn(u) ==
    /\ ~crashed
    /\ u \in Updaters
    /\ pc[u] = "ret"
    /\ pc' = [pc EXCEPT ![u] = "wlocked"]
    /\ op' = [op EXCEPT ![u] = None]
    /\ snap' = [snap EXCEPT ![u] = NoPod]
    /\ idx' = [idx EXCEPT ![u] = 0]
    /\ calls' = [calls EXCEPT ![u] = <<>>]
    /\ UNCHANGED <<todo, lockVars, registry, timers, cleaned, crashed, start, exec>>

\* The updater has re-emitted its pods and unlocks.
Unlock(u) ==
    /\ ~crashed
    /\ pc[u] = "wlocked"
    /\ todo[u] = {}
    /\ writer' = None
    /\ pc' = [pc EXCEPT ![u] = "idle"]
    /\ UNCHANGED <<op, snap, idx, calls, todo, readers, pending, registry, timers,
                   cleaned, crashed, start, exec>>

\* -------------------------------------------------------- Start and Stop
Watchers == <<"node", "namespace", "pod">>

\* The eventer as NewPodEventer leaves it: the node and namespace watchers
\* are nil when their construction failed (the error is only logged); the
\* pod watcher exists.  `failing` is the set of watchers whose Start() will
\* return an error.
NewPodEventer(nodeOK, namespaceOK, failing) ==
    [watcher |-> [node |-> IF nodeOK THEN "created" ELSE "nil",
                  namespace |-> IF namespaceOK THEN "created" ELSE "nil",
                  pod |-> "created"],
     failing |-> failing,
     pc |-> "node",
     err |-> NoError,
     order |-> <<>>]

\* A Start that goes on to the next watcher when an optional one fails.
StartWatcherTolerant(st, w, next) ==
    IF st.watcher[w] = "nil"
    THEN [st EXCEPT !.pc = next]
    ELSE IF w \in st.failing
    THEN IF w = "pod"
         THEN [st EXCEPT !.order = Append(@, w), !.err = w, !.pc = "returned"]
         ELSE [st EXCEPT !.order = Append(@, w), !.pc = next]
    ELSE [st EXCEPT !.order = Append(@, w), !.watcher[w] = "started", !.pc = next]

\* One of Start's three steps, for watcher w with next step `next`: a nil
\* optional watcher is skipped; a Start() error is returned at once, before
\* any later watcher is started.
StartWatcher(st, w, next) ==
    IF st.watcher[w] = "nil"
    THEN [st EXCEPT !.pc = next]
    ELSE IF w \in st.failing
    THEN [st EXCEPT !.order = Append(@, w), !.err = w, !.pc = "returned"]
    ELSE [st EXCEPT !.order = Append(@, w), !.watcher[w] = "started", !.pc = next]

\* A Start that starts the pod watcher before the namespace watcher.
StartPodBeforeNamespace(w) ==
    /\ start.pc = w
    /\ start' = StartWatcher(start, w,
                    CASE w = "node" -> "pod"
                      [] w = "pod" -> "namespace"
                      [] w = "namespace" -> "returned")
    /\ UNCHANGED <<eventerVars, exec>>

\* pod.Start, a step at a time: node, namespace, pod.
Start(w) ==
    /\ start.pc = w
    /\ start' = StartWatcher(start, w,
                    CASE w = "node" -> "namespace"
                      [] w = "namespace" -> "pod"
                      [] w = "pod" -> "returned")
    /\ UNCHANGED <<eventerVars, exec>>

\* pod.Stop: the pod watcher, then the namespace and node watchers that exist.
Stop ==
    /\ start.pc = "returned"
    /\ start' = [start EXCEPT
                   !.pc = "stopped",
                   !.watcher = [w \in DOMAIN @ |-> IF @[w] = "nil" THEN "nil" ELSE "stopped"]]
    /\ UNCHANGED <<eventerVars, exec>>

\* ------------------------------------------------ Execute, called directly
Idle == [pc |-> "idle"]

\* A caller builds a request and calls Execute; client.Send will answer `out`.
ExecCall(type, out) ==
    /\ exec.pc = "idle"
    /\ exec' = [pc |-> "called", type |-> type, out |-> out]
    /\ UNCHANGED <<eventerVars, start>>

\* Execute runs to its return (or panics).
ExecReturn ==
    /\ exec.pc = "called"
    /\ exec' = [pc |-> IF Execute(exec.type, exec.out).panicked THEN "panicked" ELSE "returned",
                type |-> exec.type,
                out |-> exec.out,
                result |-> Execute(exec.type, exec.out)]
    /\ UNCHANGED <<eventerVars, start>>

\* ------------------------------------------------------------------ specs
EventerInit ==
    /\ pc = [t \in Threads |-> "idle"]
    /\ op = [t \in Threads |-> None]
    /\ snap = [t \in Threads |-> NoPod]
    /\ idx = [t \in Threads |-> 0]
    /\ calls = [t \in Threads |-> <<>>]
    /\ todo = [u \in Updaters |-> {}]
    /\ readers = {}
    /\ pending = None
    /\ writer = None
    /\ registry = {}
    /\ timers = [p \in Pods |-> [k \in 1..Len(StoppedIDs(p)) |-> 0]]
    /\ cleaned = [p \in Pods |-> FALSE]
    /\ crashed = FALSE

\* The eventer after NewPodEventer and a Start that started all three watchers.
Started ==
    [NewPodEventer(TRUE, TRUE, {}) EXCEPT
        !.watcher = [w \in DOMAIN @ |-> "started"],
        !.pc = "returned",
        !.order = Watchers]

Init ==
    /\ EventerInit
    /\ start = Started
    /\ exec = Idle

\* The steps of the eventer with the pod watcher delivering events for the
\* pods P, each with a pod object from Objects[uid]; a delete is delivered
\* while fewer than Limit timers are in flight.
Step(P, U, Objects, MetaAnswers, Limit) ==
    \/ \E t \in P : Deliver(t)
    \/ \E t \in P, o \in PodOps : \E s \in Objects[t] :
            /\ o = "delete" => AllInFlight(Pods) < Limit
            /\ Callback(t, o, s)
    \/ \E t \in P : OnDelete(t)
    \/ \E t \in P : RUnlock(t)
    \/ \E t \in Threads, podMetaOK \in MetaAnswers : EmitPod(t, podMetaOK)
    \/ \E t \in Threads : \E r \in ContainerOutcomes(t, MetaAnswers) : EmitContainer(t, r)
    \/ \E p \in P, k \in 1..3 : TimerStep(p, k)
    \/ \E u \in U : Trigger(u)
    \/ \E u \in U : Lock(u)
    \/ \E u \in U, affected \in SUBSET P : LockAcquired(u, affected)
    \/ \E u \in U, p \in P : \E s \in Objects[p] : CrossUpdate(u, s)
    \/ \E u \in U : CrossReturn(u)
    \/ \E u \in U : Unlock(u)

Next == Step({"p1"}, Updaters, [p \in Pods |-> Snapshots(p)], BOOLEAN, MaxTimers)

Spec == Init /\ [][Next]_vars

PlainSnapshots(uid) == {s \in RunningSnapshots(uid) : s.annotations = {}}

\* Two pods and the node updater (the namespace updater is registered the
\* same way and behaves the same; Spec has both).
NextLock == Step(Pods, {"node"}, [p \in Pods |-> PlainSnapshots(p)], {TRUE}, MaxTimersLock)

SpecLock == Init /\ [][NextLock]_vars

\* The scheduler: a goroutine that can take a step takes it, RLock and Lock
\* return once the lock is free often enough (sync.RWMutex starves neither
\* side), timers fire.  The watchers need not deliver any event.  The
\* metadata generator is the one NewPodEventer builds, which always has a
\* "kubernetes" entry.
Fairness ==
    /\ \A t \in Pods :
          /\ SF_vars(\E o \in PodOps : \E s \in Snapshots(t) : Callback(t, o, s))
          /\ WF_vars(OnDelete(t))
          /\ WF_vars(RUnlock(t))
    /\ \A t \in Threads :
          /\ WF_vars(EmitPod(t, TRUE))
          /\ WF_vars(\E r \in ContainerOutcomes(t, {TRUE}) : EmitContainer(t, r))
    /\ \A u \in Updaters :
          /\ SF_vars(Lock(u))
          /\ WF_vars(\E affected \in SUBSET Pods : LockAcquired(u, affected))
          /\ WF_vars(\E p \in Pods : \E s \in Snapshots(p) : CrossUpdate(u, s))
          /\ WF_vars(CrossReturn(u))
          /\ WF_vars(Unlock(u))
    /\ \A p \in Pods, k \in 1..3 : WF_vars(TimerStep(p, k))

NextFair == Step({"p1"}, Updaters, [p \in Pods |-> Snapshots(p)], {TRUE}, MaxTimers)

FairSpec == Init /\ [][NextFair]_vars /\ Fairness

InitStart ==
    /\ EventerInit
    /\ \E nodeOK \in BOOLEAN, namespaceOK \in BOOLEAN, failing \in SUBSET SeqToSet(Watchers) :
          start = NewPodEventer(nodeOK, namespaceOK, failing)
    /\ exec = Idle

NextStart ==
    \/ \E w \in SeqToSet(Watchers) : Start(w)
    \/ Stop

SpecStart == InitStart /\ [][NextStart]_vars

InitExec ==
    /\ EventerInit
    /\ start = Started
    /\ exec = Idle

NextExec ==
    \/ \E type \in RequestTypes, out \in SendOutcomes : ExecCall(type, out)
    \/ ExecReturn

SpecExec == InitExec /\ [][NextExec]_vars

\* ================================================================= claims
\* A pod callback is inside its locked section: between RLock's return and
\* the deferred RUnlock.
InShared(t) == t \in Pods /\ pc[t] \in {"locked", "containers", "ret"}

\* An updater holds crossUpdate exclusively: between Lock's return and
\* Unlock, unlockedUpdate / emitRunning for its pods included.
InExclusive(u) == u \in Updaters /\ pc[u] \in {"wlocked", "locked", "containers", "ret"}

\* C1: while a node or namespace updater is in its exclusive section
\* (running unlockedUpdate / emitRunning for any pod), no OnAdd, OnUpdate or
\* OnDelete callback is inside its locked section, and the other way round;
\* so the registry calls of a cross-update are never interleaved with those
\* of a pod callback.
C1_MutualExclusion ==
    /\ \A u \in Updaters, t \in Pods : ~(InExclusive(u) /\ InShared(t))
    /\ \A t \in Pods : InShared(t) => t \in readers /\ writer = None
    /\ \A u \in Updaters : InExclusive(u) => writer = u /\ readers = {}

\* C1 witness: an updater is in the middle of a pod's emit (the pod is
\* published, its containers are not yet) while a pod callback waits in RLock.
C1_Witness ==
    \E u \in Updaters, t \in Pods :
        /\ pc[u] = "containers" /\ calls[u] # <<>>
        /\ pc[t] = "rlock"

\* C2: pod callbacks are not serialized against each other: whenever no
\* updater holds or awaits the lock, a callback (any of OnAdd, OnUpdate,
\* OnDelete, with any pod object) that is at its RLock gets the lock,
\* whatever the callbacks of other pods are doing.
C2_PodCallbacksShare ==
    \A t \in Pods :
        (pc[t] = "rlock" /\ ~crashed /\ writer = None /\ pending = None)
        => \A o \in PodOps, s \in Snapshots(t) : ENABLED Callback(t, o, s)

\* C2 witness: the callbacks of two different pods are inside their locked
\* sections at once, both in the middle of an emit.
C2_Witness ==
    \E a \in Pods, b \in Pods :
        /\ a # b
        /\ pc[a] = "containers" /\ pc[b] = "containers"
        /\ {a, b} \subseteq readers

\* C3: the lock contract never deadlocks: every callback that asks for
\* crossUpdate gets it and runs to its return, every holder releases the
\* lock, and the cross-update path (unlockedUpdate) never asks for it again.
C3_EveryCallbackCompletes ==
    /\ \A t \in Pods : (pc[t] = "rlock") ~> (pc[t] = "idle")
    /\ \A u \in Updaters : (pc[u] = "wlock") ~> (pc[u] = "idle")

\* ------------------------------------------------------------------- C4
\* Every identity emitStopped removes for a pod, as a set.
StoppedSet(uid) == SeqToSet(StoppedIDs(uid))

C5_SameIdentity ==
    /\ \A t \in Threads :
          snap[t] # NoPod => Published(calls[t]) \subseteq StoppedSet(snap[t].uid)
    /\ registry \subseteq UNION {StoppedSet(p) : p \in Pods}
    /\ \A p \in Pods :
          (cleaned[p] /\ InFlight(p) = 0) => registry \cap StoppedSet(p) = {}

\* C5 witness: the pod and both its containers (regular and init) were
\* published, the pod was deleted, its cleanup has run to the end, and the
\* registry is empty again.
C5_Witness ==
    /\ cleaned["p1"] /\ InFlight("p1") = 0
    /\ pc["p1"] = "idle"
    /\ registry = {}

\* ------------------------------------------------------------------- C6
\* How many times a callback made the call.
Count(cs, call) == Cardinality({i \in 1..Len(cs) : cs[i] = call})

\* The emit of thread t is over: emitRunning returned, or a panic ended it.
EmitOver(t) == op[t] \in {"add", "update", "cross"} /\ pc[t] \in {"ret", "panicked"}

\* C6: the emit of a pod without the hints annotation makes exactly one
\* AddOrUpdate per container with a runtime ID, under uid.name, none for a
\* container without one, and no remote dispatch.
C6_UnhintedEmit ==
    \A t \in Threads :
        (EmitOver(t) /\ ~checkForHints(snap[t].annotations))
        => /\ \A c \in DOMAIN snap[t].ids :
                 Count(calls[t], Call("AddOrUpdate", EventID(snap[t].uid, c)))
                    = IF snap[t].ids[c] # "" THEN 1 ELSE 0
           /\ \A i \in 1..Len(calls[t]) : calls[t][i].kind # "Execute"

\* ------------------------------------------------------------------- C7
\* C7: the emit of a pod with the hints annotation makes no container-scope
\* AddOrUpdate, one Execute per container with a runtime ID, and still
\* publishes the pod under its UID.
C7_HintedEmit ==
    \A t \in Threads :
        (EmitOver(t) /\ checkForHints(snap[t].annotations))
        => /\ \A c \in DOMAIN snap[t].ids :
                 /\ Count(calls[t], Call("AddOrUpdate", EventID(snap[t].uid, c))) = 0
                 /\ Count(calls[t], Call("Execute", EventID(snap[t].uid, c)))
                       = IF snap[t].ids[c] # "" THEN 1 ELSE 0
           /\ Count(calls[t], Call("AddOrUpdate", snap[t].uid)) = 1

\* ------------------------------------------------------------------- C8
\* C8 as stated: whatever the node and namespace watchers do, Start starts
\* the pod watcher, and it returns an error only when the pod watcher's
\* Start fails.
C8_StartTolerant ==
    start.pc = "returned"
    => /\ "pod" \notin start.failing => start.watcher.pod = "started"
       /\ start.err # NoError <=> "pod" \in start.failing

\* The first watcher, in Start's order, that exists and whose Start fails.
FirstFailure(st) ==
    IF st.watcher.node # "nil" /\ "node" \in st.failing THEN "node"
    ELSE IF st.watcher.namespace # "nil" /\ "namespace" \in st.failing THEN "namespace"
    ELSE IF "pod" \in st.failing THEN "pod"
    ELSE NoError

\* C8, as the code has it: Start returns the error of the first watcher that
\* exists and fails to start, node and namespace included, and starts no
\* watcher after it; the pod watcher is started exactly when no watcher
\* before it failed.  Only an optional watcher that was never constructed
\* (nil) is passed over.
C8_StartAbortsOnFirstFailure ==
    start.pc = "returned"
    => /\ start.err = FirstFailure(start)
       /\ start.watcher.pod = "started" <=> start.err = NoError
       /\ start.err = "node" => start.watcher.namespace # "started"
       /\ start.err \in {"node", "namespace"} => start.watcher.pod = "created"
       /\ \A w \in {"node", "namespace"} :
             start.watcher[w] = "nil" => w \notin SeqToSet(start.order)

\* C8 witness: Start has returned the node watcher's error; the namespace
\* and pod watchers exist, would have started, and were never started.
C8_Witness ==
    /\ start.pc = "returned"
    /\ start.err = "node"
    /\ start.failing = {"node"}
    /\ start.watcher.namespace = "created"
    /\ start.watcher.pod = "created"

\* ------------------------------------------------------------------- C9
\* Execute is over: it returned, or it panicked.
ExecOver == exec.pc \in {"returned", "panicked"}

\* C9: Execute called with an empty type returns a nil response and a
\* non-nil error, and client.Send is not called.
C9_EmptyTypeRejected ==
    (ExecOver /\ exec.type = "")
    => /\ exec.pc = "returned"
       /\ exec.result.resp = NilResponse
       /\ exec.result.err # NoError
       /\ exec.result.sends = 0

\* C9 witness: Execute has returned for a request with an empty type, in a
\* run where Send would have answered 200 with a valid body.
C9_Witness ==
    /\ exec.pc = "returned"
    /\ exec.type = ""
    /\ exec.out.kind = "response" /\ exec.out.status = StatusOK
    /\ exec.out.decodes /\ exec.out.action = "created"

\* ------------------------------------------------------------------ C10
\* The error C10 promises for a send error: the inner cause of a url.Error,
\* ErrConnRefused for a net.OpError, the error itself otherwise.
Classified(out) ==
    CASE out.kind = "url.Error" -> out.detail
      [] out.kind = "net.OpError" -> "ErrConnRefused"
      [] OTHER -> ErrorText(out)

\* C10: when Send returns an error, Execute returns normally, with a nil
\* response and the classified error.
C10_SendErrorClassified ==
    (ExecOver /\ exec.type # "" /\ exec.out.kind # "response")
    => /\ exec.pc = "returned"
       /\ exec.result.resp = NilResponse
       /\ exec.result.err = Classified(exec.out)

\* ------------------------------------------------------------------ C11
\* Send came back with an HTTP response to a request that passed validation.
RoundTrip == ExecOver /\ exec.type # "" /\ exec.out.kind = "response"

\* C11: after a round trip, status 429 gives ErrTooManyRequests, any other
\* status but 200 gives the error extracted from the body, and only 200 goes
\* on to decoding; whenever the status is not 200 the response is nil; Send
\* was called exactly once.
C11_StatusClassified ==
    RoundTrip
    => /\ exec.pc = "returned"
       /\ exec.result.sends = 1
       /\ exec.out.status = StatusTooManyRequests
             => exec.result.err = "ErrTooManyRequests"
       /\ exec.out.status \notin {StatusOK, StatusTooManyRequests}
             => exec.result.err = "ExtractError(body)"
       /\ exec.out.status # StatusOK => exec.result.resp = NilResponse
       /\ exec.out.status = StatusOK
             => exec.result.err \notin {"ErrTooManyRequests", "ExtractError(body)"}
       /\ (exec.out.status = StatusOK /\ ~exec.out.decodes)
             => exec.result.err = "fail to decode hints response"

\* C11 witness: Execute has returned for a request the server answered with
\* 429.
C11_Witness ==
    /\ RoundTrip
    /\ exec.out.status = StatusTooManyRequests
    /\ exec.result.err = "ErrTooManyRequests"

\* ------------------------------------------------------------------ C12
\* C12: Execute returns a response and a nil error exactly when the status
\* is 200, the body decodes and the action is "created"; a decoded body
\* with any other action gives a nil response and the validation error.
C12_ResponseValidated ==
    ExecOver
    => /\ (exec.result.resp # NilResponse /\ exec.result.err = NoError)
          <=> /\ RoundTrip
              /\ exec.out.status = StatusOK
              /\ exec.out.decodes
              /\ exec.out.action = "created"
       /\ exec.result.resp # NilResponse => exec.result.resp.action = "created"
       /\ (exec.pc = "returned" /\ exec.result.resp = NilResponse)
             => exec.result.err # NoError
       /\ (RoundTrip /\ exec.out.status = StatusOK /\ exec.out.decodes
                /\ exec.out.action # "created")
             => /\ exec.result.resp = NilResponse
                /\ exec.result.err = "hints not created"

\* C12 witness: the server answered 200 with a body that decodes and the
\* action "exists", and Execute returned the validation error.
C12_Witness ==
    /\ RoundTrip
    /\ exec.out.status = StatusOK /\ exec.out.decodes
    /\ exec.out.action = "exists"
    /\ exec.result.err = "hints not created"

\* ------------------------------------------------------------------ C13
\* The place of a watcher in Start's order.
Position(w) == CHOOSE i \in 1..Len(Watchers) : Watchers[i] = w

\* The watchers that exist, in Start's order.
Present(st) == SelectSeq(Watchers, LAMBDA w : st.watcher[w] # "nil")

\* C13: Start calls the watchers' Start in the order node, namespace, pod;
\* when the pod watcher's Start is called, every node / namespace watcher
\* that exists has been started; a nil watcher is passed over, and is never
\* the cause of Start's error; if no Start fails, every watcher that exists
\* has been started, in that order.
C13_StartOrder ==
    /\ \A i \in DOMAIN start.order, j \in DOMAIN start.order :
          i < j => Position(start.order[i]) < Position(start.order[j])
    /\ "pod" \in SeqToSet(start.order)
          => \A w \in {"node", "namespace"} :
                start.watcher[w] # "nil"
                => w \in SeqToSet(start.order) /\ start.watcher[w] \in {"started", "stopped"}
    /\ \A w \in {"node", "namespace"} :
          start.watcher[w] = "nil" => w \notin SeqToSet(start.order) /\ start.err # w
    /\ (start.pc = "returned" /\ start.err = NoError)
          => /\ start.order = Present(start)
             /\ \A w \in SeqToSet(Present(start)) : start.watcher[w] = "started"

\* C13 witness: the node watcher was never constructed; Start has returned
\* nil after starting the namespace watcher and then the pod watcher.
C13_Witness ==
    /\ start.pc = "returned" /\ start.err = NoError
    /\ start.watcher.node = "nil"
    /\ start.order = <<"namespace", "pod">>

\* ------------------------------------------------------------------ C14
\* The position of the pod's least advanced timer (one past the end when no
\* timer is in flight): every Remove from that position on is still to come.
FirstTimer(uid) ==
    IF \E k \in DOMAIN timers[uid] : timers[uid][k] > 0
    THEN CHOOSE k \in DOMAIN timers[uid] :
            timers[uid][k] > 0 /\ \A j \in 1..(k - 1) : timers[uid][j] = 0
    ELSE Len(timers[uid]) + 1

\* The identities of the pod the registry will hold once every scheduled
\* cleanup has run, if nothing is published meanwhile.
AfterCleanups(uid) ==
    registry \cap {StoppedIDs(uid)[j] : j \in 1..(FirstTimer(uid) - 1)}

\* OnDelete returns in this step, for thread t.
OnDeleteStep(t) == pc[t] = "locked" /\ op[t] = "delete" /\ pc'[t] = "ret"

\* C14: OnDelete never fails and changes nothing in the registry itself,
\* whether or not a delete of the same pod was handled before; after it,
\* the registry once all cleanups have run holds no identity of the pod,
\* the same after the second OnDelete as after the first.  The extra timer
\* only repeats Remove calls for the pod's identities: a timer step removes
\* at most one of them, nothing else, and leaves what the registry will
\* hold after the cleanups unchanged.
C14_DeleteIdempotent ==
    [][/\ \A t \in Pods :
            OnDeleteStep(t)
            => /\ ~crashed'
               /\ registry' = registry
               /\ AfterCleanups(snap[t].uid)' = {}
       /\ \A p \in Pods :
            (timers'[p] # timers[p] /\ ~\E t \in Pods : OnDeleteStep(t))
            => /\ AfterCleanups(p)' = AfterCleanups(p)
               /\ registry' \subseteq registry
               /\ registry \ registry' \subseteq StoppedSet(p)
               /\ Cardinality(registry \ registry') <= 1
      ]_vars

\* C14 witness: OnDelete is returning for the second time for the pod: the
\* cleanup of the first delete is in the middle of its Removes, the timer
\* of the second is scheduled.
C14_Witness ==
    /\ pc["p1"] = "ret" /\ op["p1"] = "delete"
    /\ timers["p1"][1] = 1
    /\ timers["p1"][3] = 1

\* ------------------------------------------------------------------ C15
\* C15: a metadata failure skips only the entity it is about and never
\* crashes: whatever the generator answers, emitRunning's pod-scope part
\* goes on to the pod's containers (or returns, for a pod without any), and
\* in a pod without hints the loop goes on from each container to the next,
\* publishing at most that container.
C15_MetadataFailureSkips ==
    [][\A t \in Threads :
          /\ (pc[t] = "locked" /\ op[t] \in {"add", "update", "cross"} /\ pc'[t] # pc[t])
             => /\ ~crashed'
                /\ pc'[t] \in {"containers", "ret"}
          /\ (pc[t] = "containers" /\ ~checkForHints(snap[t].annotations)
                  /\ idx'[t] # idx[t])
             => /\ ~crashed'
                /\ idx'[t] = idx[t] + 1
                /\ Len(calls'[t]) <= Len(calls[t]) + 1
      ]_vars

\* ------------------------------------------------------------------ C16
\* Execute failed for the transport outcome `out`: it returned an error, or
\* did not return.
DispatchFails(out) ==
    Execute("Start", out).panicked \/ Execute("Start", out).err # NoError

\* C16: when the dispatch for a container of a hinted pod fails, the loop
\* goes on to the next container, and the failure reaches the loop as an
\* error value: whatever the transport answered to the dispatch,
\* postMappingstoFleet returns Execute's error.
C16_DispatchFailureContained ==
    [][\A t \in Threads :
            (pc[t] = "containers" /\ checkForHints(snap[t].annotations)
                 /\ <<pc[t], idx[t]>>' # <<pc[t], idx[t]>>)
            => /\ ~crashed'
               /\ idx'[t] = idx[t] + 1
               /\ calls'[t] # calls[t]
                    => \A out \in SendOutcomes :
                          DispatchFails(out)
                          => /\ ~postMappingstoFleet("id", "ok", out).panicked
                             /\ postMappingstoFleet("id", "ok", out).err
                                   = Execute("Start", out).err
                             /\ postMappingstoFleet("id", "ok", out).err # NoError
      ]_vars

\* ------------------------------------------------------------------ C17
\* What one iteration of the container loop may call for container c of
\* snapshot s: nothing, or the one call the hint gate selects; it depends on
\* the snapshot alone, not on the callback or on the registry.
ExpectedCalls(s, c) ==
    IF s.ids[c] = "" THEN {<<>>}
    ELSE IF checkForHints(s.annotations)
    THEN {<<>>, <<Call("Execute", EventID(s.uid, c))>>}
    ELSE {<<>>, <<Call("AddOrUpdate", EventID(s.uid, c))>>}

C18_CleanupUnconditional ==
    /\ [](\A p \in Pods : \A k \in DOMAIN timers[p] :
              (timers[p][k] > 0 /\ ~crashed) => ENABLED TimerStep(p, k))
    /\ [][\A p \in Pods :
              timers'[p] # timers[p]
              => \/ /\ \E t \in Pods : OnDeleteStep(t) /\ snap[t].uid = p
                    /\ timers'[p] = [timers[p] EXCEPT ![1] = @ + 1]
                 \/ \E k \in DOMAIN timers[p] :
                       /\ timers[p][k] > 0
                       /\ timers'[p][k] = timers[p][k] - 1
                       /\ StoppedIDs(p)[k] \notin registry'
                       /\ registry' = registry \ {StoppedIDs(p)[k]}
         ]_vars

\* C18 witness: the pod was deleted and then added again; the add has
\* published the pod and its containers and has not returned yet; the
\* timer of the delete has fired meanwhile and removed the pod's identity,
\* and goes on to the containers'.
C18_Witness ==
    /\ pc["p1"] = "ret" /\ op["p1"] = "add"
    /\ Published(calls["p1"]) = StoppedSet("p1")
    /\ timers["p1"][2] = 1
    /\ "p1" \notin registry
    /\ "p1.app" \in registry

\* ------------------------------------------------------------------ C19
\* A Remove is made in this step: an identity leaves the registry.
RemoveStep == ~(registry \subseteq registry')

\* C19: every Remove for a deleted pod is made while the shared side of
\* crossUpdate is held, and so never while an updater holds the exclusive
\* side and is re-emitting pods.
C19_RemoveUnderLock ==
    [][RemoveStep
       => /\ readers # {}
          /\ writer = None
          /\ \A u \in Updaters : ~InExclusive(u)
      ]_vars

====
